---- MODULE Spec2Model ----
(***************************************************************************)
(* Relay server (src/Multiplayer/Server.cpp) and client                    *)
(* (src/Client/Client.cpp): wire codec, connection registry, broadcast    *)
(* fan-out, connection handlers, client mailbox and drain loop.            *)
(***************************************************************************)
EXTENDS Integers, Sequences, FiniteSets, TLC

(***************************************************************************)
(* Bounds of the model.                                                    *)
(***************************************************************************)
\* socket descriptors the server can hold at once (a closed one is reused)
MaxSockets == 3
\* accepts in the relay specification: peer A, then peer B
MaxConns == 2
\* accepts in the server specification
MaxPeers == 3
\* connections open at once in the registry specification
MaxLive == 2
\* accepts in the registry specification (past the 8-bit id space)
MaxAccepts == 257
\* sendMessage calls over all clients
MaxSends == 2
\* frames the server end writes in the client specification
MaxFrames == 3
\* recv() calls for a length field that return fewer bytes than are queued
MaxShortReads == 1
\* payload length of the messages the codec specification draws
MaxPayload == 2
\* length of the one long payload it draws besides (a length of two bytes)
MaxLong == 300

(***************************************************************************)
(* Program constants.                                                      *)
(***************************************************************************)
TEXT_MESSAGE == 0
EVENT_MESSAGE == 1
SNAPSHOT_MESSAGE == 2
\* uint8_t: clientID, nextClientID, messageType, senderID
Uint8Modulus == 256
\* sizeof(msgSize), sizeof(length): the 4-byte length fields
LengthBytes == 4

Sockets == 1..MaxSockets

(***************************************************************************)
(* Sequences helpers.                                                      *)
(***************************************************************************)
Take(s, n) == SubSeq(s, 1, n)
Drop(s, n) == SubSeq(s, n + 1, Len(s))
Min(a, b) == IF a < b THEN a ELSE b

(***************************************************************************)
(* Wire codec.                                                             *)
(***************************************************************************)
\* variant: the length copied in little-endian host order, htonl left out
htonlBytes_hostOrder(n) ==
  << n % 256, (n \div 256) % 256, (n \div 65536) % 256, (n \div 16777216) % 256 >>

\* htonl followed by the byte-wise copy of the 4 bytes: big-endian
htonlBytes(n) ==
  << (n \div 16777216) % 256, (n \div 65536) % 256, (n \div 256) % 256, n % 256 >>

\* memcpy of 4 bytes followed by ntohl
ntohlBytes(b) ==
  b[1] * 16777216 + b[2] * 65536 + b[3] * 256 + b[4]

\* a message object: BaseMessage fields and the derived class's byte vector
Message(type, sender, data) ==
  [messageType |-> type, senderID |-> sender, data |-> data]

\* nullptr
NullMsg == [null |-> TRUE]

serializeMessage(msg) ==
  LET header == << msg.messageType, msg.senderID >> IN
  CASE msg.messageType = TEXT_MESSAGE ->
         header \o htonlBytes(Len(msg.data)) \o msg.data
    [] msg.messageType = EVENT_MESSAGE ->
         header \o htonlBytes(Len(msg.data)) \o msg.data
    [] msg.messageType = SNAPSHOT_MESSAGE ->
         header \o htonlBytes(Len(msg.data)) \o msg.data
    [] OTHER -> header

\* variant: the check of the declared length against the buffer left out, the
\* payload being whatever bytes the buffer still holds
deserializeMessage_noLengthCheck(buffer) ==
  IF Len(buffer) < 2 THEN NullMsg
  ELSE IF buffer[1] \notin {TEXT_MESSAGE, EVENT_MESSAGE, SNAPSHOT_MESSAGE} THEN NullMsg
  ELSE IF Len(buffer) < 2 + LengthBytes THEN NullMsg
  ELSE Message(buffer[1], buffer[2],
               SubSeq(buffer, 7, Min(Len(buffer), 6 + ntohlBytes(SubSeq(buffer, 3, 6)))))

deserializeMessage(buffer) ==
  IF Len(buffer) < 2 THEN NullMsg
  ELSE
    LET messageType == buffer[1]
        senderID == buffer[2]
        offset == 2
    IN
    IF messageType \in {TEXT_MESSAGE, EVENT_MESSAGE, SNAPSHOT_MESSAGE}
    THEN
      IF Len(buffer) < offset + LengthBytes THEN NullMsg
      ELSE
        LET length == ntohlBytes(SubSeq(buffer, offset + 1, offset + LengthBytes))
            offset2 == offset + LengthBytes
        IN
        IF Len(buffer) < offset2 + length THEN NullMsg
        ELSE Message(messageType, senderID,
                     SubSeq(buffer, offset2 + 1, offset2 + length))
    ELSE NullMsg

(***************************************************************************)
(* State.                                                                  *)
(***************************************************************************)
VARIABLES
  \* Server (Server.cpp:76-82)
  nextClientID,     \* uint8_t nextClientID
  isRunning,        \* bool isRunning
  clients,          \* std::vector<ClientHandler*>: the registry, as socket descriptors
  clientsMutex,     \* 0 when free, else the socket whose handler thread holds it
  chID,             \* ClientHandler::clientID of the object made for each socket
  handler,          \* the handleClient thread of each socket: position and locals
  \* transport: one TCP connection per socket descriptor
  up,               \* bytes written by the client, not yet read by the server
  down,             \* bytes written by the server, not yet read by the client
  srvSock,          \* the server's end: "none", "open" or "closed"
  cliSock,          \* the client's end: "none", "open" or "closed"
  \* Client (Client.cpp:74-85), one client process per connection
  isConnected,      \* bool isConnected
  mainPc,           \* main(): "none", "input", "join" or "exited"
  rx,               \* the receiveMessages thread: position and locals
  textMessages,     \* std::vector<TextMessage>
  eventMessages,    \* std::vector<EventMessage>
  snapshotMessages, \* std::map<uint8_t, SnapshotMessage>, as entries in key order
  messageMutex,     \* TRUE while the processMessages thread holds it
  proc,             \* the processMessages thread: "none", "sleep", "drain" or "done"
  closeCalls,       \* closesocket(serverSocket) calls made by the client process
  \* history of the run
  acceptCount,      \* connections accepted so far
  ordinal,          \* the accept ordinal of the connection on each socket
  sendCount,        \* sendMessage calls so far
  sendLog,          \* per client: the messages handed to sendMessage, each with the
                    \* connections registered at the call
  shortReads,       \* recv() calls so far that returned less of a length field than was queued
  rxCount,          \* per handler: frames decoded so far
  frameLog,         \* per connection and loop: for each frame read whole, whether it decoded
  wireLog,          \* per socket: the frames the broadcast wrote to it
  fanout,           \* per handler: the send() calls of the fan-out in progress
  sortedLog,        \* per client: the messages sortMessageByType stored
  handledLog,       \* per client: the messages handed to the display/process handlers
  arrivals,         \* per client: the messages stored since the last drain tick began
  tickIn,           \* per client: the messages the drain tick in progress found stored
  tickOut,          \* per client: the messages the drain tick in progress handed over
  \* codec harness
  cStage, cMsg, cBuf, cOut

serverVars == << nextClientID, isRunning, clients, clientsMutex, chID, handler >>
netVars == << up, down, srvSock, cliSock >>
mailboxVars == << textMessages, eventMessages, snapshotMessages, messageMutex >>
clientVars == << isConnected, mainPc, rx, proc, closeCalls >>
acceptHist == << acceptCount, ordinal >>
sendHist == << sendCount, sendLog >>
readHist == << shortReads >>
relayHist == << rxCount, wireLog, fanout, frameLog >>
drainHist == << sortedLog, handledLog, arrivals, tickIn, tickOut >>
codecVars == << cStage, cMsg, cBuf, cOut >>
vars == << serverVars, netVars, mailboxVars, clientVars, acceptHist, sendHist, readHist,
           relayHist, drainHist, codecVars >>

\* a handleClient thread that does not exist
\* no frame read yet by the handler or by the receive thread
NoFrames == [handler |-> <<>>, receiver |-> <<>>]

NoHandler ==
  [pc |-> "none", clientID |-> 0, msgSize |-> 0, buffer |-> <<>>, msg |-> NullMsg,
   idx |-> 0, part |-> "size"]

\* a receiveMessages thread that does not exist
NoReceiver ==
  [pc |-> "none", msgSize |-> 0, buffer |-> <<>>, msg |-> NullMsg]

\* Server::Server (Server.cpp:85), Client::Client (Client.cpp:88), no connection yet
RelayInit ==
  /\ nextClientID = 1
  /\ isRunning = TRUE
  /\ clients = <<>>
  /\ clientsMutex = 0
  /\ chID = [s \in Sockets |-> 0]
  /\ handler = [s \in Sockets |-> NoHandler]
  /\ up = [s \in Sockets |-> <<>>]
  /\ down = [s \in Sockets |-> <<>>]
  /\ srvSock = [s \in Sockets |-> "none"]
  /\ cliSock = [s \in Sockets |-> "none"]
  /\ isConnected = [s \in Sockets |-> FALSE]
  /\ mainPc = [s \in Sockets |-> "none"]
  /\ rx = [s \in Sockets |-> NoReceiver]
  /\ textMessages = [s \in Sockets |-> <<>>]
  /\ eventMessages = [s \in Sockets |-> <<>>]
  /\ snapshotMessages = [s \in Sockets |-> <<>>]
  /\ messageMutex = [s \in Sockets |-> FALSE]
  /\ proc = [s \in Sockets |-> "none"]
  /\ closeCalls = [s \in Sockets |-> 0]
  /\ acceptCount = 0
  /\ ordinal = [s \in Sockets |-> 0]
  /\ sendCount = 0
  /\ sendLog = [s \in Sockets |-> <<>>]
  /\ shortReads = 0
  /\ rxCount = [s \in Sockets |-> 0]
  /\ frameLog = [s \in Sockets |-> NoFrames]
  /\ wireLog = [s \in Sockets |-> <<>>]
  /\ fanout = [s \in Sockets |-> <<>>]
  /\ sortedLog = [s \in Sockets |-> <<>>]
  /\ handledLog = [s \in Sockets |-> <<>>]
  /\ arrivals = [s \in Sockets |-> <<>>]
  /\ tickIn = [s \in Sockets |-> <<>>]
  /\ tickOut = [s \in Sockets |-> <<>>]

CodecIdle ==
  /\ cStage = "idle"
  /\ cMsg = NullMsg
  /\ cBuf = <<>>
  /\ cOut = NullMsg

Init == RelayInit /\ CodecIdle

(***************************************************************************)
(* Transport.                                                              *)
(***************************************************************************)
\* the sockets of the registry's entries
Registered(registry) == { registry[i] : i \in 1..Len(registry) }

\* send(): the bytes join the peer's receive queue while the peer's end is open
SockSend(stream, bytes, peerOpen) ==
  IF peerOpen THEN stream \o bytes ELSE stream

\* recv(sock, &msgSize, 4, 0) with data queued returns between 1 and 4 bytes;
\* a call that returns less than is queued is a short read
RecvCounts(stream, n, short, limit) ==
  { k \in 1..Min(n, Len(stream)) : k = Min(n, Len(stream)) \/ short < limit }

\* the short reads so far, after a recv() of k bytes
AfterRecv(stream, n, k, short) ==
  IF k < Min(n, Len(stream)) THEN short + 1 ELSE short

\* recv() in the loop that fills buffer: the loop adds up whatever each call
\* returns, so the calls are taken together as one that returns what is queued
RecvAll(stream, n) == { Min(n, Len(stream)) }

\* the values an unwritten byte of a local variable may hold
Uninit == {0, 7}

\* msgSize after recv() wrote the first Len(got) of its 4 bytes, then ntohl
RecvSizeValues(got) ==
  { ntohlBytes(got \o fill) : fill \in [1..(LengthBytes - Len(got)) -> Uninit] }

(***************************************************************************)
(* Server::acceptClients, with the client's connectToServer and main.      *)
(***************************************************************************)
\* a descriptor the server can be given by accept(): never opened, or closed by
\* its handler (the client process that was on it is then followed no further)
SocketFree(s) ==
  /\ srvSock[s] \in {"none", "closed"}
  /\ handler[s].pc \in {"none", "done"}

\* variant: uint8_t clientID = ++nextClientID
AssignedID_preIncrement(next) == (next + 1) % Uint8Modulus

\* uint8_t clientID = nextClientID++: the value assigned
AssignedID(next) == next

\* uint8_t clientID = nextClientID++: the counter afterwards
IncrementedID(next) == (next + 1) % Uint8Modulus

acceptOne(s, limit) ==
  /\ isRunning
  /\ clientsMutex = 0
  /\ acceptCount < limit
  /\ SocketFree(s)
  /\ \A t \in Sockets : t < s => ~SocketFree(t)
  /\ LET clientID == AssignedID(nextClientID) IN
       /\ nextClientID' = IncrementedID(nextClientID)
       /\ chID' = [chID EXCEPT ![s] = clientID]
       /\ clients' = Append(clients, s)
       /\ handler' = [handler EXCEPT
                        ![s] = [NoHandler EXCEPT !.pc = "recvSize", !.clientID = clientID]]
  /\ UNCHANGED << isRunning, clientsMutex >>
  /\ up' = [up EXCEPT ![s] = <<>>]
  /\ down' = [down EXCEPT ![s] = <<>>]
  /\ srvSock' = [srvSock EXCEPT ![s] = "open"]
  /\ cliSock' = [cliSock EXCEPT ![s] = "open"]
  /\ isConnected' = [isConnected EXCEPT ![s] = TRUE]
  /\ mainPc' = [mainPc EXCEPT ![s] = "input"]
  /\ rx' = [rx EXCEPT ![s] = [NoReceiver EXCEPT !.pc = "recvSize"]]
  /\ proc' = [proc EXCEPT ![s] = "sleep"]
  /\ closeCalls' = [closeCalls EXCEPT ![s] = 0]
  /\ textMessages' = [textMessages EXCEPT ![s] = <<>>]
  /\ eventMessages' = [eventMessages EXCEPT ![s] = <<>>]
  /\ snapshotMessages' = [snapshotMessages EXCEPT ![s] = <<>>]
  /\ messageMutex' = [messageMutex EXCEPT ![s] = FALSE]
  /\ acceptCount' = acceptCount + 1
  /\ ordinal' = [ordinal EXCEPT ![s] = acceptCount + 1]
  /\ sendLog' = [sendLog EXCEPT ![s] = <<>>]
  /\ rxCount' = [rxCount EXCEPT ![s] = 0]
  /\ frameLog' = [frameLog EXCEPT ![s] = NoFrames]
  /\ wireLog' = [wireLog EXCEPT ![s] = <<>>]
  /\ fanout' = [fanout EXCEPT ![s] = <<>>]
  /\ sortedLog' = [sortedLog EXCEPT ![s] = <<>>]
  /\ handledLog' = [handledLog EXCEPT ![s] = <<>>]
  /\ arrivals' = [arrivals EXCEPT ![s] = <<>>]
  /\ tickIn' = [tickIn EXCEPT ![s] = <<>>]
  /\ tickOut' = [tickOut EXCEPT ![s] = <<>>]
  /\ UNCHANGED << sendCount, readHist, codecVars >>

acceptClients == \E s \in Sockets : acceptOne(s, MaxConns)

(***************************************************************************)
(* Server::handleClient and Server::broadcastMessage.                      *)
(***************************************************************************)
\* variant: a loop that does not look at the flag
LoopTop_flagIgnored(running) == "recvSize"

\* while (isRunning): the next position of a handler at the top of its loop
LoopTop(running) == IF running THEN "recvSize" ELSE "remove"

\* variant: the sender id the frame declared is kept
StampSender_keepDeclared(msg, clientID) == msg

\* msg->senderID = clientID
StampSender(msg, clientID) == [msg EXCEPT !.senderID = clientID]

\* variant: the check against excludeID left out
IsRecipient_everyone(clientID, excludeID) == TRUE

\* if (clientHandler->clientID != excludeID)
IsRecipient(clientID, excludeID) == clientID # excludeID

\* if (msg): whether the frame in buffer decodes
Decodes(buffer) == deserializeMessage(buffer) # NullMsg

\* variant: a frame that fails to decode ends the loop
AfterFrame_endOnFailure(h, buffer, running) ==
  LET msg == deserializeMessage(buffer) IN
  IF msg # NullMsg
  THEN [h EXCEPT !.pc = "broadcast", !.msg = StampSender(msg, h.clientID),
                 !.buffer = <<>>, !.msgSize = 0]
  ELSE [h EXCEPT !.pc = "remove", !.buffer = <<>>, !.msgSize = 0]

\* deserializeMessage(buffer); if (msg) { msg->senderID = clientID; broadcastMessage(...) }
AfterFrame(h, buffer, running) ==
  LET msg == deserializeMessage(buffer) IN
  IF msg # NullMsg
  THEN [h EXCEPT !.pc = "broadcast", !.msg = StampSender(msg, h.clientID),
                 !.buffer = <<>>, !.msgSize = 0]
  ELSE [h EXCEPT !.pc = LoopTop(running), !.buffer = <<>>, !.msgSize = 0]

\* the frames decoded so far by the handler, after this buffer
AfterFrameCount(n, buffer) ==
  IF deserializeMessage(buffer) # NullMsg THEN n + 1 ELSE n

\* recv(clientSocket, &msgSize, sizeof(msgSize), 0); msgSize = ntohl(msgSize)
handleClient_recvSize(s, shortLimit) ==
  LET h == handler[s] IN
  /\ h.pc = "recvSize"
  /\ \/ /\ up[s] # <<>>
        /\ \E k \in RecvCounts(up[s], LengthBytes, shortReads, shortLimit) :
             \E size \in RecvSizeValues(Take(up[s], k)) :
               /\ shortReads' = AfterRecv(up[s], LengthBytes, k, shortReads)
               /\ up' = [up EXCEPT ![s] = Drop(up[s], k)]
               /\ IF size = 0
                  THEN /\ handler' = [handler EXCEPT ![s] = AfterFrame(h, <<>>, isRunning)]
                       /\ rxCount' = [rxCount EXCEPT ![s] = AfterFrameCount(rxCount[s], <<>>)]
                       /\ frameLog' = [frameLog EXCEPT
                                          ![s].handler = Append(@, Decodes(<<>>))]
                  ELSE /\ handler' = [handler EXCEPT
                                        ![s] = [h EXCEPT !.pc = "recvData", !.msgSize = size,
                                                         !.buffer = <<>>]]
                       /\ UNCHANGED << rxCount, frameLog >>
     \/ /\ up[s] = <<>>
        /\ cliSock[s] = "closed"
        /\ handler' = [handler EXCEPT ![s] = [h EXCEPT !.pc = "remove"]]
        /\ UNCHANGED << up, rxCount, frameLog, shortReads >>
  /\ UNCHANGED << nextClientID, isRunning, clients, clientsMutex, chID >>
  /\ UNCHANGED << down, srvSock, cliSock, wireLog, fanout >>
  /\ UNCHANGED << mailboxVars, clientVars, acceptHist, sendHist, drainHist, codecVars >>

\* the loop of recv() calls that fills buffer, then the rest of the iteration
handleClient_recvData(s) ==
  LET h == handler[s] IN
  /\ h.pc = "recvData"
  /\ \/ /\ up[s] # <<>>
        /\ \E k \in RecvAll(up[s], h.msgSize - Len(h.buffer)) :
             LET buffer == h.buffer \o Take(up[s], k) IN
               /\ up' = [up EXCEPT ![s] = Drop(up[s], k)]
               /\ IF Len(buffer) = h.msgSize
                  THEN /\ handler' = [handler EXCEPT ![s] = AfterFrame(h, buffer, isRunning)]
                       /\ rxCount' = [rxCount EXCEPT ![s] = AfterFrameCount(rxCount[s], buffer)]
                       /\ frameLog' = [frameLog EXCEPT
                                          ![s].handler = Append(@, Decodes(buffer))]
                  ELSE /\ handler' = [handler EXCEPT ![s] = [h EXCEPT !.buffer = buffer]]
                       /\ UNCHANGED << rxCount, frameLog >>
     \/ /\ up[s] = <<>>
        /\ cliSock[s] = "closed"
        /\ handler' = [handler EXCEPT
                         ![s] = [h EXCEPT !.pc = "remove", !.buffer = <<>>, !.msgSize = 0]]
        /\ UNCHANGED << up, rxCount, frameLog >>
  /\ UNCHANGED << nextClientID, isRunning, clients, clientsMutex, chID >>
  /\ UNCHANGED << down, srvSock, cliSock, wireLog, fanout >>
  /\ UNCHANGED << mailboxVars, clientVars, acceptHist, sendHist, readHist, drainHist,
                  codecVars >>

\* variant: no lock taken
LockGuard_absent(s) == 0

\* std::lock_guard<std::mutex> lock(clientsMutex): the mutex as held by handler s
LockGuard(s) == s

\* broadcastMessage: serializeMessage, then std::lock_guard lock(clientsMutex)
broadcastMessage_lock(s) ==
  LET h == handler[s] IN
  /\ h.pc = "broadcast"
  /\ clientsMutex = 0
  /\ clientsMutex' = LockGuard(s)
  /\ handler' = [handler EXCEPT ![s] = [h EXCEPT !.pc = "fanout", !.idx = 1, !.part = "size"]]
  /\ fanout' = [fanout EXCEPT ![s] = <<>>]
  /\ UNCHANGED << nextClientID, isRunning, clients, chID >>
  /\ UNCHANGED << netVars, rxCount, wireLog, frameLog >>
  /\ UNCHANGED << mailboxVars, clientVars, acceptHist, sendHist, readHist, drainHist,
                  codecVars >>

\* variant: a send() that fails ends the for loop
AfterSend_stopOnFailure(idx, registry, sent) ==
  IF sent THEN idx + 1 ELSE Len(registry) + 1

\* the for loop goes on to the next entry; what send() returned is not looked at
AfterSend(idx, registry, sent) == idx + 1

\* one step of the for loop over clients: skip the excluded entry, or one send()
broadcastMessage_send(s) ==
  LET h == handler[s]
      excludeID == h.clientID
      buffer == serializeMessage(h.msg)
      msgSize == htonlBytes(Len(buffer))
  IN
  /\ h.pc = "fanout"
  /\ clientsMutex = s
  /\ h.idx <= Len(clients)
  /\ LET c == clients[h.idx] IN
       IF IsRecipient(chID[c], excludeID)
       THEN IF h.part = "size"
            THEN /\ down' = [down EXCEPT
                               ![c] = SockSend(down[c], msgSize, cliSock[c] = "open")]
                 /\ handler' = [handler EXCEPT ![s] = [h EXCEPT !.part = "data"]]
                 /\ fanout' = [fanout EXCEPT
                                 ![s] = Append(fanout[s], [socket |-> c, bytes |-> msgSize])]
                 /\ UNCHANGED wireLog
            ELSE /\ down' = [down EXCEPT
                               ![c] = SockSend(down[c], buffer, cliSock[c] = "open")]
                 /\ handler' = [handler EXCEPT
                                  ![s] = [h EXCEPT !.part = "size",
                                                   !.idx = AfterSend(h.idx, clients,
                                                                     cliSock[c] = "open")]]
                 /\ fanout' = [fanout EXCEPT
                                 ![s] = Append(fanout[s], [socket |-> c, bytes |-> buffer])]
                 /\ wireLog' = [wireLog EXCEPT
                                  ![c] = Append(wireLog[c],
                                                [from |-> s, id |-> chID[s], n |-> rxCount[s],
                                                 bytes |-> buffer])]
       ELSE /\ handler' = [handler EXCEPT ![s] = [h EXCEPT !.idx = h.idx + 1]]
            /\ UNCHANGED << down, fanout, wireLog >>
  /\ UNCHANGED << nextClientID, isRunning, clients, clientsMutex, chID >>
  /\ UNCHANGED << up, srvSock, cliSock, rxCount, frameLog >>
  /\ UNCHANGED << mailboxVars, clientVars, acceptHist, sendHist, readHist, drainHist,
                  codecVars >>

\* the end of broadcastMessage (the lock_guard's scope), delete msg, while (isRunning)
broadcastMessage_unlock(s) ==
  LET h == handler[s] IN
  /\ h.pc = "fanout"
  /\ clientsMutex = s
  /\ h.idx > Len(clients)
  /\ clientsMutex' = 0
  /\ handler' = [handler EXCEPT
                   ![s] = [h EXCEPT !.pc = LoopTop(isRunning), !.msg = NullMsg, !.idx = 0]]
  /\ fanout' = [fanout EXCEPT ![s] = <<>>]
  /\ UNCHANGED << nextClientID, isRunning, clients, chID >>
  /\ UNCHANGED << netVars, rxCount, wireLog, frameLog >>
  /\ UNCHANGED << mailboxVars, clientVars, acceptHist, sendHist, readHist, drainHist,
                  codecVars >>

\* variant: the registry left as it is
RemoveByID_nothing(registry, ids, clientID) == registry

\* clients.erase(std::remove_if(... ch->clientID == clientID ...)) under the lock
RemoveByID(registry, ids, clientID) ==
  SelectSeq(registry, LAMBDA c : ids[c] # clientID)

handleClient_remove(s) ==
  LET h == handler[s] IN
  /\ h.pc = "remove"
  /\ clientsMutex = 0
  /\ clients' = RemoveByID(clients, chID, h.clientID)
  /\ handler' = [handler EXCEPT ![s] = [h EXCEPT !.pc = "close"]]
  /\ UNCHANGED << nextClientID, isRunning, clientsMutex, chID >>
  /\ UNCHANGED << netVars, relayHist >>
  /\ UNCHANGED << mailboxVars, clientVars, acceptHist, sendHist, readHist, drainHist,
                  codecVars >>

\* closesocket(clientSocket); the thread ends
handleClient_close(s) ==
  LET h == handler[s] IN
  /\ h.pc = "close"
  /\ srvSock' = [srvSock EXCEPT ![s] = "closed"]
  /\ handler' = [handler EXCEPT ![s] = [h EXCEPT !.pc = "done"]]
  /\ UNCHANGED << nextClientID, isRunning, clients, clientsMutex, chID >>
  /\ UNCHANGED << up, down, cliSock, relayHist >>
  /\ UNCHANGED << mailboxVars, clientVars, acceptHist, sendHist, readHist, drainHist,
                  codecVars >>

\* Server::stop
stop ==
  /\ isRunning
  /\ isRunning' = FALSE
  /\ UNCHANGED << nextClientID, clients, clientsMutex, chID, handler >>
  /\ UNCHANGED << netVars, relayHist >>
  /\ UNCHANGED << mailboxVars, clientVars, acceptHist, sendHist, readHist, drainHist,
                  codecVars >>

(***************************************************************************)
(* Client: main thread.                                                    *)
(***************************************************************************)
\* the messages handed to Client::sendMessage: the three kinds main() builds
\* (payloads of 0 and 1 bytes), with the sender id main() writes (0) or another
\* peer's id, and a BaseMessage of no known kind
SendSet ==
  { Message(TEXT_MESSAGE, 0, <<1>>), Message(TEXT_MESSAGE, 2, <<>>),
    Message(EVENT_MESSAGE, 0, <<>>),
    Message(SNAPSHOT_MESSAGE, 0, <<1>>), Message(SNAPSHOT_MESSAGE, 2, <<>>),
    Message(3, 0, <<>>) }

\* Client::sendMessage: two send() calls on serverSocket; the history keeps msg
\* with the registry entries the caller asks to be noted
sendMessage(s, msg, noted) ==
  LET buffer == serializeMessage(msg)
      msgSize == htonlBytes(Len(buffer))
      standing == cliSock[s] = "open" /\ srvSock[s] = "open"
  IN
  /\ mainPc[s] = "input"
  /\ up' = [up EXCEPT ![s] = SockSend(SockSend(up[s], msgSize, standing), buffer, standing)]
  /\ sendCount' = sendCount + 1
  /\ sendLog' = [sendLog EXCEPT
                   ![s] = Append(sendLog[s], [msg |-> msg, peers |-> Registered(noted)])]
  /\ UNCHANGED << down, srvSock, cliSock >>
  /\ UNCHANGED << serverVars, mailboxVars, clientVars, acceptHist, readHist, relayHist,
                  drainHist, codecVars >>

\* main(): the user enters 9; client.disconnect()
main_exit(s) ==
  /\ mainPc[s] = "input"
  /\ mainPc' = [mainPc EXCEPT ![s] = "join"]
  /\ isConnected' = [isConnected EXCEPT ![s] = FALSE]
  /\ cliSock' = [cliSock EXCEPT ![s] = "closed"]
  /\ closeCalls' = [closeCalls EXCEPT ![s] = closeCalls[s] + 1]
  /\ UNCHANGED << rx, proc, up, down, srvSock >>
  /\ UNCHANGED << serverVars, mailboxVars, acceptHist, sendHist, readHist, relayHist, drainHist,
                  codecVars >>

\* main(): processingThread.join() returns and the process ends
main_join(s) ==
  /\ mainPc[s] = "join"
  /\ proc[s] = "done"
  /\ mainPc' = [mainPc EXCEPT ![s] = "exited"]
  /\ rx' = [rx EXCEPT ![s] = NoReceiver]
  /\ UNCHANGED << isConnected, proc, closeCalls >>
  /\ UNCHANGED << serverVars, netVars, mailboxVars, acceptHist, sendHist, readHist, relayHist,
                  drainHist, codecVars >>

(***************************************************************************)
(* Client::receiveMessages and Client::sortMessageByType.                  *)
(***************************************************************************)
\* while (isConnected): the next position of the receive thread at its loop top
RecvLoopTop(connected) == IF connected THEN "recvSize" ELSE "disconnect"

\* deserializeMessage(buffer); if (msg) sortMessageByType(msg)
AfterClientFrame(r, buffer, connected) ==
  LET msg == deserializeMessage(buffer) IN
  IF msg # NullMsg
  THEN [r EXCEPT !.pc = "sort", !.msg = msg, !.buffer = <<>>, !.msgSize = 0]
  ELSE [r EXCEPT !.pc = RecvLoopTop(connected), !.buffer = <<>>, !.msgSize = 0]

\* recv(serverSocket, &msgSize, sizeof(msgSize), 0); msgSize = ntohl(msgSize)
receiveMessages_recvSize(s, shortLimit) ==
  LET r == rx[s] IN
  /\ r.pc = "recvSize"
  /\ \/ /\ cliSock[s] = "open"
        /\ down[s] # <<>>
        /\ \E k \in RecvCounts(down[s], LengthBytes, shortReads, shortLimit) :
             \E size \in RecvSizeValues(Take(down[s], k)) :
               /\ shortReads' = AfterRecv(down[s], LengthBytes, k, shortReads)
               /\ down' = [down EXCEPT ![s] = Drop(down[s], k)]
               /\ rx' = [rx EXCEPT
                           ![s] = IF size = 0
                                  THEN AfterClientFrame(r, <<>>, isConnected[s])
                                  ELSE [r EXCEPT !.pc = "recvData", !.msgSize = size,
                                                 !.buffer = <<>>]]
               /\ frameLog' = [frameLog EXCEPT
                                  ![s].receiver = IF size = 0 THEN Append(@, Decodes(<<>>))
                                                  ELSE @]
     \/ /\ \/ cliSock[s] = "closed"
           \/ down[s] = <<>> /\ srvSock[s] = "closed"
        /\ rx' = [rx EXCEPT ![s] = [r EXCEPT !.pc = "disconnect"]]
        /\ UNCHANGED << down, shortReads, frameLog >>
  /\ UNCHANGED << up, srvSock, cliSock, rxCount, wireLog, fanout >>
  /\ UNCHANGED << isConnected, mainPc, proc, closeCalls >>
  /\ UNCHANGED << serverVars, mailboxVars, acceptHist, sendHist, drainHist, codecVars >>

\* the loop of recv() calls that fills buffer, then deserializeMessage
receiveMessages_recvData(s) ==
  LET r == rx[s] IN
  /\ r.pc = "recvData"
  /\ \/ /\ cliSock[s] = "open"
        /\ down[s] # <<>>
        /\ \E k \in RecvAll(down[s], r.msgSize - Len(r.buffer)) :
             LET buffer == r.buffer \o Take(down[s], k) IN
               /\ down' = [down EXCEPT ![s] = Drop(down[s], k)]
               /\ rx' = [rx EXCEPT
                           ![s] = IF Len(buffer) = r.msgSize
                                  THEN AfterClientFrame(r, buffer, isConnected[s])
                                  ELSE [r EXCEPT !.buffer = buffer]]
               /\ frameLog' = [frameLog EXCEPT
                                  ![s].receiver = IF Len(buffer) = r.msgSize
                                                  THEN Append(@, Decodes(buffer))
                                                  ELSE @]
     \/ /\ \/ cliSock[s] = "closed"
           \/ down[s] = <<>> /\ srvSock[s] = "closed"
        /\ rx' = [rx EXCEPT
                    ![s] = [r EXCEPT !.pc = "disconnect", !.buffer = <<>>, !.msgSize = 0]]
        /\ UNCHANGED << down, frameLog >>
  /\ UNCHANGED << up, srvSock, cliSock, rxCount, wireLog, fanout >>
  /\ UNCHANGED << isConnected, mainPc, proc, closeCalls >>
  /\ UNCHANGED << serverVars, mailboxVars, acceptHist, sendHist, readHist, drainHist,
                  codecVars >>

\* variant: the new element placed at the front
PushBack_front(vec, msg) == << msg >> \o vec

\* textMessages.push_back(*tm), eventMessages.push_back(*em)
PushBack(vec, msg) == Append(vec, msg)

\* variant: a container that keeps every Snapshot it is given
MapAssign_keepAll(map, key, msg) == Append(map, [key |-> key, value |-> msg])

\* snapshotMessages[sm->senderID] = *sm on a std::map kept in key order
MapAssign(map, key, msg) ==
  IF \E i \in 1..Len(map) : map[i].key = key
  THEN [i \in 1..Len(map) |->
          IF map[i].key = key THEN [key |-> key, value |-> msg] ELSE map[i]]
  ELSE LET below == SelectSeq(map, LAMBDA e : e.key < key)
           above == SelectSeq(map, LAMBDA e : e.key > key)
       IN below \o << [key |-> key, value |-> msg] >> \o above

\* Client::sortMessageByType under messageMutex, then delete msg, while (isConnected)
sortMessageByType(s) ==
  LET r == rx[s]
      msg == r.msg
  IN
  /\ r.pc = "sort"
  /\ ~messageMutex[s]
  /\ CASE msg.messageType = TEXT_MESSAGE ->
            /\ textMessages' = [textMessages EXCEPT ![s] = PushBack(textMessages[s], msg)]
            /\ UNCHANGED << eventMessages, snapshotMessages >>
       [] msg.messageType = EVENT_MESSAGE ->
            /\ eventMessages' = [eventMessages EXCEPT ![s] = PushBack(eventMessages[s], msg)]
            /\ UNCHANGED << textMessages, snapshotMessages >>
       [] msg.messageType = SNAPSHOT_MESSAGE ->
            /\ snapshotMessages' = [snapshotMessages EXCEPT
                                      ![s] = MapAssign(snapshotMessages[s], msg.senderID, msg)]
            /\ UNCHANGED << textMessages, eventMessages >>
  /\ rx' = [rx EXCEPT ![s] = [r EXCEPT !.pc = RecvLoopTop(isConnected[s]), !.msg = NullMsg]]
  /\ sortedLog' = [sortedLog EXCEPT ![s] = Append(sortedLog[s], msg)]
  /\ arrivals' = [arrivals EXCEPT ![s] = Append(arrivals[s], msg)]
  /\ UNCHANGED << messageMutex, handledLog, tickIn, tickOut >>
  /\ UNCHANGED << isConnected, mainPc, proc, closeCalls >>
  /\ UNCHANGED << serverVars, netVars, acceptHist, sendHist, readHist, relayHist, codecVars >>

\* receiveMessages: disconnect() after the loop; the thread ends
receiveMessages_disconnect(s) ==
  LET r == rx[s] IN
  /\ r.pc = "disconnect"
  /\ rx' = [rx EXCEPT ![s] = [r EXCEPT !.pc = "done"]]
  /\ isConnected' = [isConnected EXCEPT ![s] = FALSE]
  /\ cliSock' = [cliSock EXCEPT ![s] = "closed"]
  /\ closeCalls' = [closeCalls EXCEPT ![s] = closeCalls[s] + 1]
  /\ UNCHANGED << mainPc, proc, up, down, srvSock >>
  /\ UNCHANGED << serverVars, mailboxVars, acceptHist, sendHist, readHist, relayHist, drainHist,
                  codecVars >>

(***************************************************************************)
(* Client::processMessages.                                                *)
(***************************************************************************)
\* variant: the lock let go before the handlers are called
DrainLock_released == FALSE

\* std::lock_guard<std::mutex> lock(messageMutex) at the top of the block that
\* holds the three for loops: messageMutex while they run
DrainLock == TRUE

\* while (isConnected) { std::lock_guard lock(messageMutex); ...
processMessages_begin(s) ==
  /\ proc[s] = "sleep"
  /\ IF isConnected[s]
     THEN /\ ~messageMutex[s]
          /\ messageMutex' = [messageMutex EXCEPT ![s] = DrainLock]
          /\ proc' = [proc EXCEPT ![s] = "drain"]
          /\ tickIn' = [tickIn EXCEPT ![s] = arrivals[s]]
          /\ arrivals' = [arrivals EXCEPT ![s] = <<>>]
     ELSE /\ proc' = [proc EXCEPT ![s] = "done"]
          /\ UNCHANGED << messageMutex, tickIn, arrivals >>
  /\ UNCHANGED << textMessages, eventMessages, snapshotMessages, sortedLog, handledLog,
                  tickOut >>
  /\ UNCHANGED << isConnected, mainPc, rx, closeCalls >>
  /\ UNCHANGED << serverVars, netVars, acceptHist, sendHist, readHist, relayHist, codecVars >>

\* variant: the Event loop placed before the Text loop
DrainHead_eventsFirst(texts, events, snapshots) ==
  IF events # <<>> THEN Head(events)
  ELSE IF texts # <<>> THEN Head(texts)
  ELSE IF snapshots # <<>> THEN Head(snapshots).value
  ELSE NullMsg

\* the entry the three for loops of processMessages reach next: the first Text,
\* else the first Event, else the Snapshot of the lowest key
DrainHead(texts, events, snapshots) ==
  IF texts # <<>> THEN Head(texts)
  ELSE IF events # <<>> THEN Head(events)
  ELSE IF snapshots # <<>> THEN Head(snapshots).value
  ELSE NullMsg

\* one iteration of the three for loops: the handler call, then erase
processMessages_step(s) ==
  /\ proc[s] = "drain"
  /\ \E msg \in { DrainHead(textMessages[s], eventMessages[s], snapshotMessages[s]) } :
       /\ msg # NullMsg
       /\ handledLog' = [handledLog EXCEPT ![s] = Append(handledLog[s], msg)]
       /\ tickOut' = [tickOut EXCEPT ![s] = Append(tickOut[s], msg)]
       /\ CASE msg.messageType = TEXT_MESSAGE ->
                 /\ textMessages' = [textMessages EXCEPT ![s] = Tail(textMessages[s])]
                 /\ UNCHANGED << eventMessages, snapshotMessages >>
            [] msg.messageType = EVENT_MESSAGE ->
                 /\ eventMessages' = [eventMessages EXCEPT ![s] = Tail(eventMessages[s])]
                 /\ UNCHANGED << textMessages, snapshotMessages >>
            [] OTHER ->
                 /\ snapshotMessages' = [snapshotMessages EXCEPT
                                           ![s] = Tail(snapshotMessages[s])]
                 /\ UNCHANGED << textMessages, eventMessages >>
  /\ UNCHANGED << messageMutex, sortedLog, arrivals, tickIn >>
  /\ UNCHANGED << clientVars >>
  /\ UNCHANGED << serverVars, netVars, acceptHist, sendHist, readHist, relayHist, codecVars >>

\* the end of the locked block; sleep_for(100 ms)
processMessages_end(s) ==
  /\ proc[s] = "drain"
  /\ textMessages[s] = <<>>
  /\ eventMessages[s] = <<>>
  /\ snapshotMessages[s] = <<>>
  /\ messageMutex' = [messageMutex EXCEPT ![s] = FALSE]
  /\ proc' = [proc EXCEPT ![s] = "sleep"]
  /\ tickIn' = [tickIn EXCEPT ![s] = <<>>]
  /\ tickOut' = [tickOut EXCEPT ![s] = <<>>]
  /\ UNCHANGED << textMessages, eventMessages, snapshotMessages, sortedLog, handledLog,
                  arrivals >>
  /\ UNCHANGED << isConnected, mainPc, rx, closeCalls >>
  /\ UNCHANGED << serverVars, netVars, acceptHist, sendHist, readHist, relayHist, codecVars >>

(***************************************************************************)
(* The relay: server and clients.  Peer A is the first connection accepted  *)
(* (socket 1); its user types the messages.                                *)
(***************************************************************************)
Senders == {1}

ServerStep ==
  \/ acceptClients
  \/ \E s \in Sockets : handleClient_recvSize(s, MaxShortReads)
  \/ \E s \in Sockets : handleClient_recvData(s)
  \/ \E s \in Sockets : broadcastMessage_lock(s)
  \/ \E s \in Sockets : broadcastMessage_send(s)
  \/ \E s \in Sockets : broadcastMessage_unlock(s)

ReceiveStep ==
  \/ \E s \in Sockets : receiveMessages_recvSize(s, MaxShortReads)
  \/ \E s \in Sockets : receiveMessages_recvData(s)
  \/ \E s \in Sockets : sortMessageByType(s)
  \/ \E s \in Sockets : processMessages_begin(s)
  \/ \E s \in Sockets : processMessages_step(s)
  \/ \E s \in Sockets : processMessages_end(s)

UserStep ==
  \E s \in Senders : \E msg \in SendSet : sendCount < MaxSends /\ sendMessage(s, msg, clients)

Next == ServerStep \/ ReceiveStep \/ UserStep

Spec == Init /\ [][Next]_vars

(***************************************************************************)
(* The server with its peers: every peer sends and leaves, the server is   *)
(* stopped; what the peers do with the frames they are sent is left out,   *)
(* and every length field arrives whole.                                   *)
(***************************************************************************)
ServerSendSet ==
  { Message(TEXT_MESSAGE, 0, <<1>>), Message(SNAPSHOT_MESSAGE, 2, <<>>), Message(3, 0, <<>>) }

NextServer ==
  \/ \E s \in Sockets : acceptOne(s, MaxPeers)
  \/ stop
  \/ \E s \in Sockets : handleClient_recvSize(s, 0)
  \/ \E s \in Sockets : handleClient_recvData(s)
  \/ \E s \in Sockets : broadcastMessage_lock(s)
  \/ \E s \in Sockets : broadcastMessage_send(s)
  \/ \E s \in Sockets : broadcastMessage_unlock(s)
  \/ \E s \in Sockets : handleClient_remove(s)
  \/ \E s \in Sockets : handleClient_close(s)
  \/ \E s \in Sockets : \E msg \in ServerSendSet :
       sendCount < MaxSends /\ sendMessage(s, msg, <<>>)
  \/ \E s \in Sockets : main_exit(s)

SpecServer == Init /\ [][NextServer]_vars

(***************************************************************************)
(* One client and the server's end of its connection; every length field   *)
(* arrives whole.                                                          *)
(***************************************************************************)
\* the frames a server relays: stamped with the id of their sender's connection
RelayedSet ==
  { Message(TEXT_MESSAGE, 1, <<1>>), Message(TEXT_MESSAGE, 2, <<>>),
    Message(EVENT_MESSAGE, 2, <<>>),
    Message(SNAPSHOT_MESSAGE, 1, <<1>>), Message(SNAPSHOT_MESSAGE, 1, <<>>),
    Message(SNAPSHOT_MESSAGE, 2, <<1>>) }

\* the two send() calls of broadcastMessage on this client's socket
serverFrame(s, msg) ==
  LET buffer == serializeMessage(msg)
      msgSize == htonlBytes(Len(buffer))
  IN
  /\ srvSock[s] = "open"
  /\ handler[s].pc = "recvSize"
  /\ down' = [down EXCEPT
                ![s] = SockSend(SockSend(down[s], msgSize, cliSock[s] = "open"), buffer,
                                cliSock[s] = "open")]
  /\ wireLog' = [wireLog EXCEPT
                   ![s] = Append(wireLog[s],
                                 [from |-> 0, id |-> msg.senderID, n |-> 0, bytes |-> buffer])]
  /\ UNCHANGED << up, srvSock, cliSock, rxCount, fanout, frameLog >>
  /\ UNCHANGED << serverVars, mailboxVars, clientVars, acceptHist, sendHist, readHist,
                  drainHist, codecVars >>

NextClient ==
  \/ acceptOne(1, 1)
  \/ \E msg \in RelayedSet : Len(wireLog[1]) < MaxFrames /\ serverFrame(1, msg)
  \/ receiveMessages_recvSize(1, 0)
  \/ receiveMessages_recvData(1)
  \/ sortMessageByType(1)
  \/ receiveMessages_disconnect(1)
  \/ processMessages_begin(1)
  \/ processMessages_step(1)
  \/ processMessages_end(1)
  \/ main_exit(1)
  \/ main_join(1)
  \/ handleClient_recvSize(1, 0)
  \/ handleClient_remove(1)
  \/ handleClient_close(1)

SpecClient == Init /\ [][NextClient]_vars

(***************************************************************************)
(* The registry over many connections: accepts and teardowns only.         *)
(***************************************************************************)
NextRegistry ==
  \/ \E s \in 1..MaxLive : acceptOne(s, MaxAccepts)
  \/ \E s \in Sockets : main_exit(s)
  \/ \E s \in Sockets : handleClient_recvSize(s, 0)
  \/ \E s \in Sockets : handleClient_remove(s)
  \/ \E s \in Sockets : handleClient_close(s)

SpecRegistry == Init /\ [][NextRegistry]_vars

(***************************************************************************)
(* The codec on its own: serializeMessage and deserializeMessage applied   *)
(* to drawn messages, to the frames cut short, to frames of no known kind  *)
(* and to frames with bytes after the payload.                             *)
(***************************************************************************)
CodecBytes == {0, 1, 255}

RECURSIVE BytesUpTo(_)
\* the byte sequences of length at most n over CodecBytes
BytesUpTo(n) ==
  IF n = 0 THEN { <<>> }
  ELSE LET shorter == BytesUpTo(n - 1) IN
       shorter \cup { Append(b, x) : b \in shorter, x \in CodecBytes }

CodecMessages ==
  { Message(type, sender, data) :
      type \in {TEXT_MESSAGE, EVENT_MESSAGE, SNAPSHOT_MESSAGE},
      sender \in {0, 1, 255},
      data \in BytesUpTo(MaxPayload) \cup { [i \in 1..MaxLong |-> 1] } }

UnknownKinds == {3, 255}

CodecInit ==
  /\ RelayInit
  /\ cStage = "message"
  /\ cMsg \in CodecMessages
  /\ cBuf = <<>>
  /\ cOut = NullMsg

relayVars ==
  << serverVars, netVars, mailboxVars, clientVars, acceptHist, sendHist, readHist,
     relayHist, drainHist >>

codec_serialize ==
  /\ cStage = "message"
  /\ cBuf' = serializeMessage(cMsg)
  /\ cStage' = "frame"
  /\ UNCHANGED << cMsg, cOut, relayVars >>

\* the frame cut before its end
codec_truncate ==
  /\ cStage = "frame"
  /\ \E n \in 0..(Len(cBuf) - 1) : cBuf' = Take(cBuf, n)
  /\ cStage' = "prefix"
  /\ UNCHANGED << cMsg, cOut, relayVars >>

\* the frame with its kind byte replaced
codec_unknownKind ==
  /\ cStage = "frame"
  /\ \E k \in UnknownKinds : cBuf' = [cBuf EXCEPT ![1] = k]
  /\ cStage' = "unknown"
  /\ UNCHANGED << cMsg, cOut, relayVars >>

\* the frame with bytes after its payload
codec_extend ==
  /\ cStage = "frame"
  /\ \E extra \in BytesUpTo(1) \ { <<>> } : cBuf' = cBuf \o extra
  /\ cStage' = "longer"
  /\ UNCHANGED << cMsg, cOut, relayVars >>

codec_deserialize ==
  /\ cStage \in {"frame", "prefix", "unknown", "longer"}
  /\ cOut' = deserializeMessage(cBuf)
  /\ cStage' = CASE cStage = "frame" -> "decoded frame"
                 [] cStage = "prefix" -> "decoded prefix"
                 [] cStage = "unknown" -> "decoded unknown"
                 [] cStage = "longer" -> "decoded longer"
  /\ UNCHANGED << cMsg, cBuf, relayVars >>

NextCodec ==
  \/ codec_serialize
  \/ codec_truncate
  \/ codec_unknownKind
  \/ codec_extend
  \/ codec_deserialize

SpecCodec == CodecInit /\ [][NextCodec]_vars

(***************************************************************************)
(* Properties of the codec (SpecCodec).                                    *)
(***************************************************************************)
\* C6: Codec round-trip.  For every message of kind Text, Event or Snapshot,
\* with any sender id and any payload (the empty one included), deserializing
\* the serialized frame succeeds and gives back the same kind, sender id and
\* payload bytes.
C6_RoundTrip ==
  cStage = "decoded frame" => cOut # NullMsg /\ cOut = cMsg

\* a message with the empty payload and the highest sender id went through
C6_Witness ==
  /\ cStage = "decoded frame"
  /\ cMsg.data = <<>>
  /\ cMsg.senderID = 255
  /\ cMsg.messageType = SNAPSHOT_MESSAGE
  /\ cOut = cMsg

\* C7: Fail-closed decode.  Every proper prefix of a valid frame (length 0 up
\* to one byte short of the payload's end) and every frame whose kind byte is
\* not 0, 1 or 2 deserializes to failure, never to a message.
C7_FailClosed ==
  cStage \in {"decoded prefix", "decoded unknown"} => cOut = NullMsg

\* a frame with a payload, cut one byte short of its end, was refused
C7_Witness ==
  /\ cStage = "decoded prefix"
  /\ Len(cMsg.data) = MaxPayload
  /\ Len(cBuf) = 2 + LengthBytes + Len(cMsg.data) - 1
  /\ cOut = NullMsg

(***************************************************************************)
(* Properties of the registry (SpecRegistry).                              *)
(***************************************************************************)
\* C5: Sequential ids.  For any N <= 255 accepted connections, in any
\* interleaving of the accepts with handler activity and teardowns, the k-th
\* accepted connection is assigned id k: the ids are distinct and sequential
\* from 1.
C5_SequentialIds ==
  /\ \A s \in Sockets :
       srvSock[s] # "none" /\ ordinal[s] < Uint8Modulus =>
         /\ chID[s] = ordinal[s]
         /\ handler[s].clientID = ordinal[s]
  /\ \A s, t \in Sockets :
       s # t /\ srvSock[s] # "none" /\ srvSock[t] # "none" /\ acceptCount < Uint8Modulus =>
         chID[s] # chID[t]

\* the 255th connection was accepted, after teardowns, beside an older one
C5_Witness ==
  \E s, t \in Sockets :
    /\ ordinal[s] = Uint8Modulus - 1
    /\ chID[s] = Uint8Modulus - 1
    /\ srvSock[s] = "open"
    /\ srvSock[t] = "open"
    /\ ordinal[t] < ordinal[s] - 1
    /\ ordinal[t] > 0

(***************************************************************************)
(* Properties of the server (SpecServer).                                  *)
(***************************************************************************)
\* C1: Sender-id integrity.  Every frame the server relays carries as senderID
\* the registry id of the connection whose handler received it, whatever
\* sender id the inbound frame declared, in every interleaving of handlers.
C1_SenderIdIntegrity ==
  /\ \A d \in Sockets : \A i \in 1..Len(wireLog[d]) :
       LET e == wireLog[d][i] IN
         /\ deserializeMessage(e.bytes) # NullMsg
         /\ deserializeMessage(e.bytes).senderID = e.id
  /\ \A s \in Sockets : \A i \in 1..Len(fanout[s]) :
       Len(fanout[s][i].bytes) # LengthBytes =>
         deserializeMessage(fanout[s][i].bytes).senderID = chID[s]

\* a frame that declared sender 2 was relayed by the handler of connection 1
C1_Witness ==
  \E d \in Sockets : \E i \in 1..Len(wireLog[d]) :
    LET e == wireLog[d][i] IN
      /\ e.id = 1
      /\ deserializeMessage(e.bytes).messageType = SNAPSHOT_MESSAGE
      /\ deserializeMessage(e.bytes).senderID = 1
      /\ \E j \in 1..Len(sendLog[e.from]) :
           /\ sendLog[e.from][j].msg.messageType = SNAPSHOT_MESSAGE
           /\ sendLog[e.from][j].msg.senderID = 2

RECURSIVE ExpectedSends(_, _, _, _)
\* the send() calls of a fan-out of frame over registry: length then frame to
\* every entry whose id is not excludeID, in registry order
ExpectedSends(registry, ids, excludeID, frame) ==
  IF registry = <<>> THEN <<>>
  ELSE LET c == Head(registry)
           rest == ExpectedSends(Tail(registry), ids, excludeID, frame)
       IN IF ids[c] # excludeID
          THEN << [socket |-> c, bytes |-> htonlBytes(Len(frame))],
                  [socket |-> c, bytes |-> frame] >> \o rest
          ELSE rest

\* C2: Broadcast exclusion.  broadcast(m, excludeId = X) writes the frame of m
\* to every connection in the registry during the fan-out except the one with
\* id X, and to no other socket; the handler's own connection never receives
\* the message it relayed.
C2_BroadcastExclusion ==
  \A s \in Sockets :
    handler[s].pc = "fanout" =>
      LET h == handler[s]
          frame == serializeMessage(h.msg)
          expected == ExpectedSends(clients, chID, chID[s], frame)
      IN
      /\ \A i \in 1..Len(fanout[s]) :
           /\ fanout[s][i].socket # s
           /\ \E j \in 1..Len(clients) : clients[j] = fanout[s][i].socket
           /\ srvSock[fanout[s][i].socket] = "open"
      /\ Len(fanout[s]) <= Len(expected)
      /\ fanout[s] = SubSeq(expected, 1, Len(fanout[s]))
      /\ h.idx > Len(clients) => fanout[s] = expected

\* a fan-out over a registry of three connections wrote to the two others
C2_Witness ==
  \E s \in Sockets :
    /\ handler[s].pc = "fanout"
    /\ Len(clients) = 3
    /\ handler[s].idx > Len(clients)
    /\ Len(fanout[s]) = 4
    /\ \A c \in Sockets \ {s} : \E i \in 1..Len(fanout[s]) : fanout[s][i].socket = c

(***************************************************************************)
(* Properties of the client mailbox (SpecClient).                          *)
(***************************************************************************)
OfKind(log, kind) == SelectSeq(log, LAMBDA m : m.messageType = kind)

IsPrefix(a, b) == Len(a) <= Len(b) /\ a = SubSeq(b, 1, Len(a))

\* the drain of this tick has emptied the three containers
TickDone(s) ==
  /\ proc[s] = "drain"
  /\ textMessages[s] = <<>>
  /\ eventMessages[s] = <<>>
  /\ snapshotMessages[s] = <<>>

SnapshotsOf(log, sender) ==
  SelectSeq(log, LAMBDA m : m.messageType = SNAPSHOT_MESSAGE /\ m.senderID = sender)

\* C4: Snapshot overwrite.  The snapshot map holds at most one entry per
\* senderID at all times, and of the Snapshots of one sender classified with
\* no drain in between, the next drain hands the handler exactly one: the last.
C4_SnapshotOverwrite ==
  \A s \in Sockets :
    /\ \A i, j \in 1..Len(snapshotMessages[s]) :
         i < j => snapshotMessages[s][i].key < snapshotMessages[s][j].key
    /\ \A i \in 1..Len(snapshotMessages[s]) :
         snapshotMessages[s][i].value.senderID = snapshotMessages[s][i].key
    /\ TickDone(s) =>
         \A sender \in 0..(Uint8Modulus - 1) :
           LET classified == SnapshotsOf(tickIn[s], sender)
               handled == SnapshotsOf(tickOut[s], sender)
           IN IF classified = <<>> THEN handled = <<>>
              ELSE handled = << classified[Len(classified)] >>

\* two Snapshots of sender 1 with different payloads classified before one
\* drain, which handed over the second only
C4_Witness ==
  /\ TickDone(1)
  /\ tickIn[1] = << Message(SNAPSHOT_MESSAGE, 1, <<1>>), Message(SNAPSHOT_MESSAGE, 1, <<>>) >>
  /\ tickOut[1] = << Message(SNAPSHOT_MESSAGE, 1, <<>>) >>

\* C9: Drain order.  Within one drain tick the handlers run for all Text
\* entries first, then all Event entries, then all Snapshot entries; Text and
\* Event entries are handled in the order they were classified, and no entry
\* of a later kind is handled before an entry of an earlier kind of that tick.
C9_DrainOrder ==
  \A s \in Sockets :
    proc[s] = "drain" =>
      LET out == tickOut[s]
          in == tickIn[s]
      IN
      /\ \A i, j \in 1..Len(out) : i < j => out[i].messageType <= out[j].messageType
      /\ IsPrefix(OfKind(out, TEXT_MESSAGE), OfKind(in, TEXT_MESSAGE))
      /\ IsPrefix(OfKind(out, EVENT_MESSAGE), OfKind(in, EVENT_MESSAGE))
      /\ OfKind(out, EVENT_MESSAGE) # <<>> =>
           OfKind(out, TEXT_MESSAGE) = OfKind(in, TEXT_MESSAGE)
      /\ OfKind(out, SNAPSHOT_MESSAGE) # <<>> =>
           /\ OfKind(out, TEXT_MESSAGE) = OfKind(in, TEXT_MESSAGE)
           /\ OfKind(out, EVENT_MESSAGE) = OfKind(in, EVENT_MESSAGE)
      /\ TickDone(s) =>
           /\ OfKind(out, TEXT_MESSAGE) = OfKind(in, TEXT_MESSAGE)
           /\ OfKind(out, EVENT_MESSAGE) = OfKind(in, EVENT_MESSAGE)

\* a Snapshot, an Event and a Text classified in that order before one drain,
\* which handled the Text, then the Event, then the Snapshot
C9_Witness ==
  /\ TickDone(1)
  /\ tickIn[1] = << Message(SNAPSHOT_MESSAGE, 2, <<1>>), Message(EVENT_MESSAGE, 2, <<>>),
                    Message(TEXT_MESSAGE, 1, <<1>>) >>
  /\ tickOut[1] = << Message(TEXT_MESSAGE, 1, <<1>>), Message(EVENT_MESSAGE, 2, <<>>),
                     Message(SNAPSHOT_MESSAGE, 2, <<1>>) >>

(***************************************************************************)
(* Properties of the relay from peer to peer (Spec).                       *)
(***************************************************************************)
RECURSIVE IsSubseq(_, _)
\* a is b with some elements left out
IsSubseq(a, b) ==
  IF a = <<>> THEN TRUE
  ELSE IF b = <<>> THEN FALSE
  ELSE IF Head(a) = Head(b) THEN IsSubseq(Tail(a), Tail(b))
  ELSE IsSubseq(a, Tail(b))

\* the messages of one kind and one sender in a log, in the log's order
OfKindFrom(log, kind, sender) ==
  SelectSeq(log, LAMBDA m : m.messageType = kind /\ m.senderID = sender)

\* the messages the frames written to socket d decode to, in the order written
Relayed(d) == [i \in 1..Len(wireLog[d]) |-> deserializeMessage(wireLog[d][i].bytes)]

\* C8: Per-connection FIFO.  The frames one handler received in some order are
\* written to every other peer in that order, and on that peer's client the
\* Text (and the Event) messages of one sender reach the handler in the order
\* the server wrote them.
C8_PerConnectionFifo ==
  /\ \A d \in Sockets : \A i, j \in 1..Len(wireLog[d]) :
       i < j /\ wireLog[d][i].from = wireLog[d][j].from =>
         wireLog[d][i].n < wireLog[d][j].n
  /\ \A d \in Sockets : \A kind \in {TEXT_MESSAGE, EVENT_MESSAGE} :
       \A sender \in { chID[s] : s \in Sockets } :
         /\ IsSubseq(OfKindFrom(handledLog[d], kind, sender),
                     OfKindFrom(Relayed(d), kind, sender))
         /\ IsPrefix(OfKindFrom(handledLog[d], kind, sender),
                     OfKindFrom(sortedLog[d], kind, sender))

\* peer 2 was written two different Texts of peer 1 and its handler was given
\* both, in the order peer 1's handler received them
C8_Witness ==
  /\ Len(wireLog[2]) = 2
  /\ wireLog[2][1].from = 1 /\ wireLog[2][1].n = 1
  /\ wireLog[2][2].from = 1 /\ wireLog[2][2].n = 2
  /\ Relayed(2)[1] # Relayed(2)[2]
  /\ Relayed(2)[1].messageType = TEXT_MESSAGE
  /\ Relayed(2)[2].messageType = TEXT_MESSAGE
  /\ handledLog[2] = Relayed(2)

\* no frame decoded after a frame that failed to decode
NoneAfterFailure(log) ==
  \A i, j \in 1..Len(log) : i < j => ~(log[i] = FALSE /\ log[j] = TRUE)

NumDecoded(log) == Len(SelectSeq(log, LAMBDA ok : ok))

\* C10 as stated: a decode failure ends the read loop of the server handler
\* and of the client receive thread, so no later frame of that connection is
\* decoded, relayed or classified.
C10_FailureEndsLoop ==
  \A s \in Sockets :
    /\ NoneAfterFailure(frameLog[s].handler)
    /\ NoneAfterFailure(frameLog[s].receiver)
    /\ (\E i \in 1..Len(frameLog[s].handler) : ~frameLog[s].handler[i]) =>
         handler[s].pc \in {"remove", "close", "done"}
    /\ (\E i \in 1..Len(frameLog[s].receiver) : ~frameLog[s].receiver[i]) =>
         rx[s].pc \in {"disconnect", "done"}

\* C10: A frame that fails to decode is dropped, neither relayed nor
\* classified, and the loop goes on with the next frame: while both ends of
\* the connection are open and the loop's flag is set the loop has not ended,
\* whatever frames failed before.
C10_DropAndContinue ==
  \A s \in Sockets :
    /\ srvSock[s] = "open" /\ cliSock[s] = "open" /\ isRunning =>
         handler[s].pc \in {"recvSize", "recvData", "broadcast", "fanout"}
    /\ srvSock[s] = "open" /\ cliSock[s] = "open" /\ isConnected[s] =>
         rx[s].pc \in {"recvSize", "recvData", "sort"}
    /\ NumDecoded(frameLog[s].handler) = rxCount[s]
    /\ \A d \in Sockets : \A i \in 1..Len(wireLog[d]) :
         wireLog[d][i].from = s =>
           /\ Decodes(wireLog[d][i].bytes)
           /\ wireLog[d][i].n \in 1..rxCount[s]
    /\ NumDecoded(frameLog[s].receiver)
         = Len(sortedLog[s]) + (IF rx[s].pc = "sort" THEN 1 ELSE 0)

\* the handler of peer 1 read a frame of unknown kind and then a frame that
\* decoded, relayed the second to peer 2 and is reading again
C10_Witness ==
  /\ frameLog[1].handler = << FALSE, TRUE >>
  /\ handler[1].pc = "recvSize"
  /\ Len(wireLog[2]) = 1
  /\ wireLog[2][1].from = 1
  /\ Len(sortedLog[2]) = 1

\* nothing is in flight and no loop has a frame in hand
Settled ==
  \A s \in Sockets :
    /\ up[s] = <<>>
    /\ down[s] = <<>>
    /\ handler[s].pc \in {"none", "recvSize", "recvData"}
    /\ rx[s].pc \in {"none", "recvSize", "recvData"}

\* the well-formed messages a sent while b was registered, as the server
\* stamps them
Owed(a, b) ==
  LET sent == SelectSeq(sendLog[a],
                        LAMBDA e : b \in e.peers
                                   /\ e.msg.messageType \in {TEXT_MESSAGE, EVENT_MESSAGE,
                                                             SNAPSHOT_MESSAGE})
  IN [i \in 1..Len(sent) |-> StampSender(sent[i].msg, chID[a])]

\* C3: End-to-end relay.  A well-formed frame of kind k and payload p that peer
\* A (registry id a) sends while peer B is registered is decoded by B's receive
\* loop as kind k, payload p, senderID a and classified; A's own mailbox never
\* receives it.
C3_EndToEndRelay ==
  /\ \A a \in Sockets : \A i \in 1..Len(sortedLog[a]) :
       srvSock[a] # "none" => sortedLog[a][i].senderID # chID[a]
  /\ Settled =>
       \A a \in Senders : \A b \in Sockets \ {a} :
         IsSubseq(Owed(a, b), sortedLog[b])

(***************************************************************************)
(* Properties of the registry over any number of accepts (SpecRegistry).   *)
(***************************************************************************)
\* the handler of the connection on socket s is in its read loop
InLoop(s) == handler[s].pc \in {"recvSize", "recvData", "broadcast", "fanout"}

\* C11: Teardown isolation.  A transport failure on connection X tears down X
\* only: once X's handler has exited X is absent from the registry and its
\* socket is closed, and every other connection that was registered and whose
\* handler is still in its loop stays registered, for any sequence of accepts
\* and failures.
C11_TeardownIsolation ==
  /\ \A s \in Sockets :
       handler[s].pc = "done" => srvSock[s] = "closed" /\ s \notin Registered(clients)
  /\ \A s \in Sockets : InLoop(s) => s \in Registered(clients)

\* C12: Registry id uniqueness.  The ids of the connections in the registry
\* are pairwise distinct in every reachable state, for any number of accepts
\* and teardowns, the id counter being an unsigned 8-bit integer.
C12_RegistryIdsDistinct ==
  \A i, j \in 1..Len(clients) : i # j => chID[clients[i]] # chID[clients[j]]

(***************************************************************************)
(* Properties of the fan-out and of the shutdown (SpecServer).             *)
(***************************************************************************)
\* the send() calls of handler s's fan-out on socket c
SendsTo(s, c) == SelectSeq(fanout[s], LAMBDA e : e.socket = c)

\* the last n bytes queued for the client on socket c
Tail_n(stream, n) == SubSeq(stream, Len(stream) - n + 1, Len(stream))

\* C13: A failed write during a fan-out is not retried and does not stop the
\* fan-out.  When the fan-out is over every registered peer other than the
\* excluded one has been written the length and the frame once, whether or not
\* a write to another peer failed, and the handler goes on with its read loop.
C13_FailedWriteGoesOn ==
  \A s \in Sockets :
    /\ handler[s].pc = "fanout" /\ handler[s].idx > Len(clients) =>
         LET frame == serializeMessage(handler[s].msg)
             size == htonlBytes(Len(frame))
         IN \A c \in Registered(clients) :
              IF chID[c] = chID[s] THEN SendsTo(s, c) = <<>>
              ELSE /\ SendsTo(s, c) = << [socket |-> c, bytes |-> size],
                                         [socket |-> c, bytes |-> frame] >>
                   /\ cliSock[c] = "open" =>
                        /\ Len(down[c]) >= Len(size) + Len(frame)
                        /\ Tail_n(down[c], Len(size) + Len(frame)) = size \o frame
    /\ srvSock[s] = "open" /\ cliSock[s] = "open" /\ isRunning => InLoop(s)

\* a fan-out is over in which both writes to the first recipient failed and
\* the recipient after it in the registry was written the frame
C13_Witness ==
  \E s \in Sockets : \E i, j \in 1..Len(clients) :
    /\ handler[s].pc = "fanout" /\ handler[s].idx > Len(clients)
    /\ i < j
    /\ clients[i] # s /\ clients[j] # s
    /\ cliSock[clients[i]] = "closed"
    /\ Len(wireLog[clients[i]]) = 1
    /\ down[clients[i]] = <<>>
    /\ cliSock[clients[j]] = "open"
    /\ down[clients[j]] = htonlBytes(Len(serializeMessage(handler[s].msg)))
                            \o serializeMessage(handler[s].msg)

DeclaredLength(buffer) == ntohlBytes(SubSeq(buffer, 3, 2 + LengthBytes))

\* C15: Decode consumes the whole input.  Whenever deserializeMessage returns
\* a message the buffer's length is 6 plus the declared payload length and the
\* message's payload is exactly the declared number of bytes.
C15_WholeInput ==
  cStage \in {"decoded frame", "decoded prefix", "decoded unknown", "decoded longer"}
    /\ cOut # NullMsg
  => /\ Len(cBuf) = 2 + LengthBytes + DeclaredLength(cBuf)
     /\ Len(cOut.data) = DeclaredLength(cBuf)

RECURSIVE Framed(_)
\* the bytes of the frames of a log, each after its length prefix
Framed(log) ==
  IF log = <<>> THEN <<>>
  ELSE htonlBytes(Len(Head(log).bytes)) \o Head(log).bytes \o Framed(Tail(log))

\* the length prefix a fan-out has written to socket c with the frame still to come
PendingPrefix(c) ==
  IF \E s \in Sockets : /\ handler[s].pc = "fanout"
                        /\ handler[s].idx <= Len(clients)
                        /\ clients[handler[s].idx] = c
                        /\ handler[s].part = "data"
  THEN htonlBytes(Len(serializeMessage(handler[clientsMutex].msg)))
  ELSE <<>>

\* in every state: a fan-out runs with the lock held, and what a peer has been
\* sent is whole frames, each right after its own length prefix
FanoutLocked ==
  /\ \A s \in Sockets : handler[s].pc = "fanout" => clientsMutex = s
  /\ \A c \in Sockets :
       srvSock[c] # "none" =>
         IF cliSock[c] = "open"
         THEN down[c] = Framed(wireLog[c]) \o PendingPrefix(c)
         ELSE IsPrefix(down[c], Framed(wireLog[c]) \o PendingPrefix(c))

\* in every step: while a fan-out holds the lock the registry and the ids stay
\* as they are and only that fan-out writes to the peers
FanoutAlone ==
  \A s \in Sockets :
    handler[s].pc = "fanout" =>
      /\ clients' = clients
      /\ chID' = chID
      /\ down' # down => handler'[s] # handler[s]

\* C16: Fan-out is one critical section.  The registry lock is held from before
\* the first write of a broadcast until after its last write; no registration,
\* removal or write of another broadcast comes in between, so every peer is
\* sent the length prefix and the body of a frame in one piece and the fan-out
\* goes to the connections registered when it began, minus the excluded id.
C16_FanoutCriticalSection == [] FanoutLocked /\ [][FanoutAlone]_vars

\* a fan-out has written a length prefix and not yet the frame, while another
\* handler has a frame to relay and a third is at its teardown: both wait
C16_Witness ==
  \E s, u, v \in Sockets :
    /\ handler[s].pc = "fanout" /\ handler[s].part = "data"
    /\ handler[u].pc = "broadcast"
    /\ handler[v].pc = "remove"
    /\ PendingPrefix(clients[handler[s].idx]) # <<>>

(***************************************************************************)
(* Properties of the mailbox lock (SpecClient).                            *)
(***************************************************************************)
\* C17 as stated: the drain lets go of the mailbox lock before it calls the
\* handlers, so once a handler has been called in a tick the lock is free.
C17_HandlersOutsideLock ==
  \A s \in Sockets : proc[s] = "drain" /\ tickOut[s] # <<>> => ~messageMutex[s]

\* C17: The handlers run inside the mailbox lock.  The drain holds the lock
\* from before its first handler call until after its last one, and nothing is
\* classified in the meantime.
C17_HandlersInsideLock ==
  \A s \in Sockets :
    proc[s] = "drain" => messageMutex[s] /\ arrivals[s] = <<>>

\* a handler has been called in this tick, entries are left to handle, and the
\* receive thread holds a decoded message it cannot store yet
C17_Witness ==
  /\ proc[1] = "drain"
  /\ tickOut[1] # <<>>
  /\ DrainHead(textMessages[1], eventMessages[1], snapshotMessages[1]) # NullMsg
  /\ messageMutex[1]
  /\ rx[1].pc = "sort"

(***************************************************************************)
(* Properties of the length read (Spec).                                   *)
(***************************************************************************)
\* the length of the n-th frame sent to the client on socket s, the frame of
\* the fan-out in progress when only its length prefix has been written yet
RelayedLength(s, n) ==
  IF n <= Len(wireLog[s]) THEN Len(wireLog[s][n].bytes)
  ELSE IF clientsMutex # 0 THEN Len(serializeMessage(handler[clientsMutex].msg))
  ELSE 0

\* C18: Exact length read.  The handler and the receive thread use as the
\* length of their n-th frame the whole 4-byte length of the n-th frame sent to
\* them, also when recv() hands the length over in pieces, and so never read
\* more frames than were sent.
C18_ExactLengthRead ==
  \A s \in Sockets :
    LET h == handler[s]
        r == rx[s]
        hn == Len(frameLog[s].handler) + 1
        rn == Len(frameLog[s].receiver) + 1
    IN
    /\ Len(frameLog[s].handler) <= Len(sendLog[s])
    /\ h.pc = "recvData" =>
         /\ hn <= Len(sendLog[s])
         /\ h.msgSize = Len(serializeMessage(sendLog[s][hn].msg))
    /\ Len(frameLog[s].receiver) <= Len(wireLog[s])
    /\ r.pc = "recvData" => r.msgSize = RelayedLength(s, rn)

(***************************************************************************)
(* Properties of the ids and of the sockets in the registry.               *)
(***************************************************************************)
\* C19: The sentinel id 0 is never assigned.  For any number of accepts no
\* registered connection has id 0 and no frame the server relays carries
\* senderID 0.
C19_NoSentinelId ==
  /\ \A s \in Registered(clients) : chID[s] # 0
  /\ \A d \in Sockets : \A i \in 1..Len(wireLog[d]) :
       deserializeMessage(wireLog[d][i].bytes).senderID # 0

\* C20: No write to a closed socket.  In every interleaving of fan-outs and
\* teardowns every entry of the registry has its socket open, and so has every
\* socket a fan-out has written to while it holds the lock.
C20_NoWriteToClosedSocket ==
  /\ \A c \in Registered(clients) : srvSock[c] = "open"
  /\ \A s \in Sockets : \A i \in 1..Len(fanout[s]) :
       handler[s].pc = "fanout" => srvSock[fanout[s][i].socket] = "open"
  /\ \A s \in Sockets :
       handler[s].pc = "fanout" /\ handler[s].idx <= Len(clients) =>
         srvSock[clients[handler[s].idx]] = "open"

\* a fan-out has writes still to make while the socket of a connection that
\* left the registry is closed
C20_Witness ==
  \E s, u \in Sockets :
    /\ handler[s].pc = "fanout"
    /\ handler[s].idx <= Len(clients)
    /\ Len(fanout[s]) > 0
    /\ handler[u].pc = "done"
    /\ srvSock[u] = "closed"
    /\ u \notin Registered(clients)

(***************************************************************************)
(* Properties of the client's end of life (SpecClient).                    *)
(***************************************************************************)
\* C21: No message is stranded in the mailbox.  Every message the classifier
\* stores is handed to its handler by the drain loop, the ones stored just
\* before the connection is marked closed included: once the drain loop has
\* ended the three containers are empty and the receive thread holds no
\* message still to store.
C21_NoStrandedMessage ==
  \A s \in Sockets :
    proc[s] = "done" =>
      /\ textMessages[s] = <<>>
      /\ eventMessages[s] = <<>>
      /\ snapshotMessages[s] = <<>>
      /\ rx[s].pc # "sort"

\* C22: The client socket is closed at most once per connection.  Over the
\* receive thread and the main thread, in every interleaving of user exit and
\* read failure, closesocket(serverSocket) is executed no more than once.
C22_ClosedAtMostOnce ==
  \A s \in Sockets : closeCalls[s] <= 1

====
